---- MODULE Spec2Model ----
(***************************************************************************)
(* Model of easy_handeye's calibration back end: HandeyeCalibrator         *)
(* (handeye_calibrator.py), which keeps the list of samples and calls the  *)
(* ViSP hand2eye service, and HandeyeServer (handeye_server.py), whose     *)
(* five service handlers keep the last computed calibration.               *)
(*                                                                         *)
(* Python values are modelled as follows.  A tf tuple                      *)
(* ((x, y, z), (x, y, z, w)) is a pair of TLA+ tuples; a geometry_msgs     *)
(* Transform is a record with named components; a Python list is a         *)
(* sequence, so that the Python index i is the TLA+ index i + 1; None is   *)
(* the record None.  An exception that leaves a handler is the response    *)
(* [type |-> "exception", exc |-> <class>]: rospy reports it to the client *)
(* and keeps serving, and whatever the handler assigned before the raise   *)
(* stays assigned.                                                         *)
(***************************************************************************)
EXTENDS Integers, Sequences, FiniteSets, TLC

VARIABLES
    eye_on_hand,        \* HandeyeCalibrator.eye_on_hand, read once from the parameters
    samples,            \* HandeyeCalibrator.samples
    last_calibration,   \* HandeyeServer.last_calibration
    request,            \* the request handled last
    response,           \* what its handler returned or raised
    calibrate_calls,    \* calls of the ViSP service proxy made while handling it
    to_param_calls,     \* results written to the parameter server while handling it
    to_file_calls,      \* results written to the calibration file while handling it
    tf_calls,           \* calls of the tf listener made while handling it
    log,                \* rospy log entries written while handling it
    pc,                 \* per handler thread: the statement it executes next
    local               \* per handler thread: the local values of its handler

vars == <<eye_on_hand, samples, last_calibration, request, response,
          calibrate_calls, to_param_calls, to_file_calls, tf_calls, log,
          pc, local>>

-----------------------------------------------------------------------------
(* Bounds and input sets *)

MaxSamples == 3

\* the longest list of samples when the handlers interleave
MaxThreadSamples == 2

\* the readings of rospy.Time.now() at the start of a take_sample are 1 .. MaxTime
MaxTime == 2

None == [none |-> TRUE]

\* tf tuples the listener can return
TfTuples == { << <<1, 2, 3>>, <<0, 0, 0, 1>> >>,
              << <<4, 5, 6>>, <<0, 1, 0, 0>> >> }

\* geometry_msgs/Transform values the ViSP service can return
SolverTransforms ==
    { [translation |-> [x |-> 1, y |-> 0, z |-> 2],
       rotation    |-> [x |-> 0, y |-> 0, z |-> 0, w |-> 1]],
      [translation |-> [x |-> 3, y |-> 4, z |-> 5],
       rotation    |-> [x |-> 1, y |-> 0, z |-> 0, w |-> 0]] }

\* what one call of the service proxy does: it returns a response or raises
\* rospy.ServiceException (transport failure or error reported by the service)
SolverReplies ==
    { [raised |-> "", effector_camera |-> t] : t \in SolverTransforms }
    \cup { [raised |-> "ServiceException"] }

\* RemoveSample request indices: below, inside and above the list
SampleIndices == (0 - 2) .. (MaxSamples + 1)

-----------------------------------------------------------------------------
(* HandeyeCalibrator *)

MIN_SAMPLES == 2

tool_frame == "tool0"
base_link_frame == "base_link"
optical_origin_frame == "optical_origin"
optical_target_frame == "optical_target"

\* what the tf listener and the clock do during one take_sample: now is the
\* reading of rospy.Time.now(); fail_at = 0 when all four calls succeed, 1 or 2
\* when the first or second waitForTransform times out, 3 or 4 when the first
\* or second lookupTransform raises; robot and optical are the tuples the two
\* lookups return
TfBehaviours ==
    [now : 1 .. MaxTime, fail_at : 0 .. 4, robot : TfTuples, optical : TfTuples]

\* the record of one call of the listener: the method, the two frames, the
\* time argument, and the clock when the call is made (the clock has advanced
\* by at least one tick since the call before)
tf_call(fn, target, source, time, at) ==
    [fn |-> fn, target |-> target, source |-> source, time |-> time, at |-> at]

\* rospy.Time.now(), then the two waits in order; the first that times out raises
wait_for_transforms(tf) ==
    LET now == tf.now
        robot_wait == tf_call("waitForTransform", base_link_frame, tool_frame,
                              now, tf.now + 1)
        optical_wait == tf_call("waitForTransform", optical_origin_frame,
                                optical_target_frame, now, tf.now + 2)
    IN
    IF tf.fail_at = 1 THEN [raised |-> "tf.Exception", calls |-> << robot_wait >>]
    ELSE IF tf.fail_at = 2
         THEN [raised |-> "tf.Exception", calls |-> << robot_wait, optical_wait >>]
    ELSE [raised |-> "", value |-> now, calls |-> << robot_wait, optical_wait >>]

\* get_transforms that reads the clock again for the optical lookup
get_transforms_rereading_clock(tf) ==
    LET waited == wait_for_transforms(tf) IN
    IF waited.raised # "" THEN [raised |-> waited.raised, calls |-> waited.calls]
    ELSE
      LET rob == tf_call("lookupTransform", base_link_frame, tool_frame,
                         waited.value, tf.now + 3)
          opt == tf_call("lookupTransform", optical_origin_frame,
                         optical_target_frame, tf.now + 4, tf.now + 4)
      IN
      IF tf.fail_at = 3
      THEN [raised |-> "tf.LookupException", calls |-> Append(waited.calls, rob)]
      ELSE IF tf.fail_at = 4
           THEN [raised |-> "tf.LookupException",
                 calls |-> waited.calls \o << rob, opt >>]
      ELSE [raised |-> "", value |-> [robot |-> tf.robot, optical |-> tf.optical],
            calls |-> waited.calls \o << rob, opt >>]

\* called with time = None: waits, then looks up the robot and the optical
\* transform at the time the wait returned
get_transforms(tf) ==
    LET waited == wait_for_transforms(tf) IN
    IF waited.raised # "" THEN [raised |-> waited.raised, calls |-> waited.calls]
    ELSE
      LET time == waited.value
          rob == tf_call("lookupTransform", base_link_frame, tool_frame,
                         time, tf.now + 3)
          opt == tf_call("lookupTransform", optical_origin_frame,
                         optical_target_frame, time, tf.now + 4)
      IN
      IF tf.fail_at = 3
      THEN [raised |-> "tf.LookupException", calls |-> Append(waited.calls, rob)]
      ELSE IF tf.fail_at = 4
           THEN [raised |-> "tf.LookupException",
                 calls |-> waited.calls \o << rob, opt >>]
      ELSE [raised |-> "", value |-> [robot |-> tf.robot, optical |-> tf.optical],
            calls |-> waited.calls \o << rob, opt >>]

\* take_sample that appends what it has when the second lookup raises
take_sample_appending_early(ss, tf) ==
    LET transforms == get_transforms(tf) IN
    IF transforms.raised # ""
    THEN [raised |-> transforms.raised, tf_calls |-> transforms.calls,
          samples |-> IF tf.fail_at = 4
                      THEN Append(ss, [robot |-> tf.robot, optical |-> tf.robot])
                      ELSE ss,
          log |-> << [level |-> "info", msg |-> "Taking a sample..."] >>]
    ELSE [raised |-> "", tf_calls |-> transforms.calls,
          samples |-> Append(ss, transforms.value),
          log |-> << [level |-> "info", msg |-> "Taking a sample..."],
                     [level |-> "info", msg |-> "Got a sample"] >>]

\* take_sample that puts the new sample in front of the list
take_sample_prepending(ss, tf) ==
    LET transforms == get_transforms(tf) IN
    IF transforms.raised # ""
    THEN [raised |-> transforms.raised, tf_calls |-> transforms.calls,
          samples |-> ss,
          log |-> << [level |-> "info", msg |-> "Taking a sample..."] >>]
    ELSE [raised |-> "", tf_calls |-> transforms.calls,
          samples |-> << transforms.value >> \o ss,
          log |-> << [level |-> "info", msg |-> "Taking a sample..."],
                     [level |-> "info", msg |-> "Got a sample"] >>]

\* HandeyeCalibrator.take_sample on the list ss: the list afterwards, the
\* exception that left the method ("" when none) and the log entries
HandeyeCalibrator_take_sample(ss, tf) ==
    LET transforms == get_transforms(tf) IN
    IF transforms.raised # ""
    THEN [raised |-> transforms.raised, tf_calls |-> transforms.calls,
          samples |-> ss,
          log |-> << [level |-> "info", msg |-> "Taking a sample..."] >>]
    ELSE [raised |-> "", tf_calls |-> transforms.calls,
          samples |-> Append(ss, transforms.value),
          log |-> << [level |-> "info", msg |-> "Taking a sample..."],
                     [level |-> "info", msg |-> "Got a sample"] >>]

\* remove_sample that drops the last sample instead of the one at index
remove_sample_last(ss, index) ==
    IF 0 <= index /\ index < Len(ss)
    THEN SubSeq(ss, 1, Len(ss) - 1)
    ELSE ss

\* remove_sample without the test 0 <= index: a negative index counts from the
\* end of the list, and the IndexError of an index below -len(ss) is swallowed
remove_sample_negative_indexing(ss, index) ==
    IF 0 <= index /\ index < Len(ss)
    THEN SubSeq(ss, 1, index) \o SubSeq(ss, index + 2, Len(ss))
    ELSE IF index < 0 /\ 0 - index <= Len(ss)
         THEN SubSeq(ss, 1, Len(ss) + index) \o SubSeq(ss, Len(ss) + index + 2, Len(ss))
    ELSE ss

\* HandeyeCalibrator.remove_sample: del ss[index] when 0 <= index < len(ss)
HandeyeCalibrator_remove_sample(ss, index) ==
    IF 0 <= index /\ index < Len(ss)
    THEN SubSeq(ss, 1, index) \o SubSeq(ss, index + 2, Len(ss))
    ELSE ss

\* Vector3(*tf_t[0]), Quaternion(*tf_t[1]): positional arguments x, y, z (, w)
tuple_to_msg_transform(tf_t) ==
    [translation |-> [x |-> tf_t[1][1], y |-> tf_t[1][2], z |-> tf_t[1][3]],
     rotation    |-> [x |-> tf_t[2][1], y |-> tf_t[2][2], z |-> tf_t[2][3],
                      w |-> tf_t[2][4]]]

\* the loop of get_visp_samples from sample k on: one append to each array per sample
RECURSIVE visp_samples_loop(_, _, _, _)
visp_samples_loop(ss, k, hand_world, camera_marker) ==
    IF k > Len(ss) THEN <<hand_world, camera_marker>>
    ELSE LET to == tuple_to_msg_transform(ss[k].optical)
             tr == tuple_to_msg_transform(ss[k].robot)
         IN  visp_samples_loop(ss, k + 1, Append(hand_world, tr),
                               Append(camera_marker, to))

\* get_visp_samples that builds both arrays back to front
RECURSIVE visp_samples_loop_reversed(_, _, _, _)
visp_samples_loop_reversed(ss, k, hand_world, camera_marker) ==
    IF k > Len(ss) THEN <<hand_world, camera_marker>>
    ELSE visp_samples_loop_reversed(ss, k + 1,
             << tuple_to_msg_transform(ss[k].robot) >> \o hand_world,
             << tuple_to_msg_transform(ss[k].optical) >> \o camera_marker)

get_visp_samples_reversed(ss) ==
    LET arrays == visp_samples_loop_reversed(ss, 1, << >>, << >>) IN
    << [header |-> [frame_id |-> base_link_frame], transforms |-> arrays[1]],
       [header |-> [frame_id |-> optical_origin_frame], transforms |-> arrays[2]] >>

\* get_visp_samples that leaves the first robot transform out
get_visp_samples_skipping(ss) ==
    LET arrays == visp_samples_loop(ss, 1, << >>, << >>) IN
    << [header |-> [frame_id |-> base_link_frame],
        transforms |-> IF arrays[1] = << >> THEN << >> ELSE Tail(arrays[1])],
       [header |-> [frame_id |-> optical_origin_frame], transforms |-> arrays[2]] >>

\* HandeyeCalibrator.get_visp_samples: <<hand_world_samples, camera_marker_samples>>
get_visp_samples(ss) ==
    LET arrays == visp_samples_loop(ss, 1, << >>, << >>) IN
    << [header |-> [frame_id |-> base_link_frame], transforms |-> arrays[1]],
       [header |-> [frame_id |-> optical_origin_frame], transforms |-> arrays[2]] >>

\* result_tuple with the quaternion in the order w, x, y, z
result_tuple_w_first(result) ==
    LET transl == result.effector_camera.translation
        rot == result.effector_camera.rotation
    IN  << <<transl.x, transl.y, transl.z>>, <<rot.w, rot.x, rot.y, rot.z>> >>

\* the tf tuple built from the service's answer
result_tuple(result) ==
    LET transl == result.effector_camera.translation
        rot == result.effector_camera.rotation
    IN  << <<transl.x, transl.y, transl.z>>, <<rot.x, rot.y, rot.z, rot.w>> >>

\* the constructor of handeyecalibration.handeye_calibration.HandeyeCalibration
HandeyeCalibration(eoh, base_frame, tool, optical_origin, transformation) ==
    [eye_on_hand |-> eoh, base_link_frame |-> base_frame, tool_frame |-> tool,
     optical_origin_frame |-> optical_origin, transformation |-> transformation]

\* samples_needed with the operands of the subtraction exchanged
samples_needed_swapped(ss) == Len(ss) - MIN_SAMPLES

\* the number put into the "more samples needed" warning
samples_needed(ss) == MIN_SAMPLES - Len(ss)

\* HandeyeCalibrator.compute_calibration on the list ss, when a call of the
\* service proxy would behave as reply: the value returned (ret), the
\* exception that left the method, the calls made of the proxy, the log
HandeyeCalibrator_compute_calibration(ss, eoh, reply) ==
    IF Len(ss) < MIN_SAMPLES
    THEN [raised |-> "", ret |-> None, calls |-> << >>,
          log |-> << [level |-> "warn", msg |-> "more samples needed",
                      needed |-> samples_needed(ss)] >>]
    ELSE
      LET visp == get_visp_samples(ss)
          hand_world_samples == visp[1]
          camera_marker_samples == visp[2]
      IN
      IF Len(hand_world_samples.transforms) # Len(camera_marker_samples.transforms)
      THEN [raised |-> "AssertionError", ret |-> None, calls |-> << >>,
            log |-> << [level |-> "err", msg |-> "Different numbers of samples"] >>]
      ELSE
        LET call == [args |-> <<camera_marker_samples, hand_world_samples>>,
                     reply |-> reply]
            computing == [level |-> "info", msg |-> "Computing from poses",
                          poses |-> Len(ss)]
        IN
        IF reply.raised = "ServiceException"
        THEN [raised |-> "", ret |-> None, calls |-> <<call>>,
              log |-> << computing,
                         [level |-> "err", msg |-> "Calibration failed"] >>]
        ELSE [raised |-> "",
              ret |-> HandeyeCalibration(eoh, base_link_frame, tool_frame,
                                         optical_origin_frame, result_tuple(reply)),
              calls |-> <<call>>, log |-> << computing >>]

-----------------------------------------------------------------------------
(* HandeyeCalibration's two persistence methods *)

\* what one call of to_param or to_file does: it returns, or the write fails
\* and the method raises
SinkOutcomes == {"ok", "raise"}

\* the record of one call of to_param or to_file on the result value
sink_call(value, outcome) == [value |-> value, outcome |-> outcome]

-----------------------------------------------------------------------------
(* HandeyeServer *)

\* SampleList(*get_visp_samples()): the two arrays as positional fields
SampleList(visp) ==
    [hand_world_samples |-> visp[1], camera_marker_samples |-> visp[2]]

exception(exc) == [type |-> "exception", exc |-> exc]

\* the threads in which rospy runs the handlers: one per client connection
Threads == {"client_a", "client_b"}

\* a thread that is not handling a request
NoLocals == [handler |-> "none"]

Init ==
    /\ eye_on_hand \in BOOLEAN
    /\ samples = << >>
    /\ last_calibration = None
    /\ request = [op |-> "init"]
    /\ response = [type |-> "init"]
    /\ calibrate_calls = << >>
    /\ to_param_calls = << >>
    /\ to_file_calls = << >>
    /\ tf_calls = << >>
    /\ log = << >>
    /\ pc = [t \in Threads |-> "idle"]
    /\ local = [t \in Threads |-> NoLocals]

\* get_sample_lists bound to the handler of take_sample
get_sample_lists_taking ==
    /\ Len(samples) < MaxSamples
    /\ \E tf \in TfBehaviours :
         LET taken == HandeyeCalibrator_take_sample(samples, tf) IN
         /\ samples' = taken.samples
         /\ tf_calls' = taken.tf_calls
         /\ log' = taken.log
         /\ response' = IF taken.raised # "" THEN exception(taken.raised)
                        ELSE [type |-> "TakeSampleResponse",
                              samples |-> SampleList(get_visp_samples(taken.samples))]
    /\ request' = [op |-> "get_sample_lists"]
    /\ calibrate_calls' = << >>
    /\ to_param_calls' = << >>
    /\ to_file_calls' = << >>
    /\ UNCHANGED <<eye_on_hand, last_calibration, pc, local>>

get_sample_lists ==
    /\ request' = [op |-> "get_sample_lists"]
    /\ response' = [type |-> "TakeSampleResponse",
                    samples |-> SampleList(get_visp_samples(samples))]
    /\ calibrate_calls' = << >>
    /\ to_param_calls' = << >>
    /\ to_file_calls' = << >>
    /\ tf_calls' = << >>
    /\ log' = << >>
    /\ UNCHANGED <<eye_on_hand, samples, last_calibration, pc, local>>

take_sample ==
    /\ Len(samples) < MaxSamples
    /\ \E tf \in TfBehaviours :
         LET taken == HandeyeCalibrator_take_sample(samples, tf) IN
         /\ samples' = taken.samples
         /\ tf_calls' = taken.tf_calls
         /\ log' = taken.log
         /\ response' = IF taken.raised # "" THEN exception(taken.raised)
                        ELSE [type |-> "TakeSampleResponse",
                              samples |-> SampleList(get_visp_samples(taken.samples))]
    /\ request' = [op |-> "take_sample"]
    /\ calibrate_calls' = << >>
    /\ to_param_calls' = << >>
    /\ to_file_calls' = << >>
    /\ UNCHANGED <<eye_on_hand, last_calibration, pc, local>>

remove_sample ==
    /\ \E sample_index \in SampleIndices :
         LET remaining == HandeyeCalibrator_remove_sample(samples, sample_index) IN
         /\ request' = [op |-> "remove_sample", sample_index |-> sample_index]
         /\ samples' = remaining
         /\ response' = [type |-> "RemoveSampleResponse",
                         samples |-> SampleList(get_visp_samples(remaining))]
    /\ calibrate_calls' = << >>
    /\ to_param_calls' = << >>
    /\ to_file_calls' = << >>
    /\ tf_calls' = << >>
    /\ log' = << >>
    /\ UNCHANGED <<eye_on_hand, last_calibration, pc, local>>

\* compute_calibration that empties the list of samples once the service answered
compute_calibration_clearing ==
    /\ \E reply \in SolverReplies :
         LET computed == HandeyeCalibrator_compute_calibration(samples, eye_on_hand, reply) IN
         /\ calibrate_calls' = computed.calls
         /\ log' = computed.log
         /\ samples' = IF computed.calls = << >> THEN samples ELSE << >>
         /\ IF computed.raised # ""
            THEN /\ last_calibration' = last_calibration
                 /\ response' = exception(computed.raised)
            ELSE /\ last_calibration' = computed.ret
                 /\ response' =
                      IF computed.ret = None THEN exception("AttributeError")
                      ELSE [type |-> "ComputeCalibrationResponse",
                            calibration |->
                              [eye_on_hand |-> computed.ret.eye_on_hand,
                               transform |-> computed.ret.transformation]]
    /\ request' = [op |-> "compute_calibration"]
    /\ to_param_calls' = << >>
    /\ to_file_calls' = << >>
    /\ tf_calls' = << >>
    /\ UNCHANGED <<eye_on_hand, pc, local>>

compute_calibration ==
    /\ \E reply \in SolverReplies :
         LET computed == HandeyeCalibrator_compute_calibration(samples, eye_on_hand, reply) IN
         /\ calibrate_calls' = computed.calls
         /\ log' = computed.log
         /\ IF computed.raised # ""
            THEN /\ last_calibration' = last_calibration
                 /\ response' = exception(computed.raised)
            ELSE /\ last_calibration' = computed.ret
                 /\ response' =
                      IF computed.ret = None THEN exception("AttributeError")
                      ELSE [type |-> "ComputeCalibrationResponse",
                            calibration |->
                              [eye_on_hand |-> computed.ret.eye_on_hand,
                               transform |-> computed.ret.transformation]]
    /\ request' = [op |-> "compute_calibration"]
    /\ to_param_calls' = << >>
    /\ to_file_calls' = << >>
    /\ tf_calls' = << >>
    /\ UNCHANGED <<eye_on_hand, samples, pc, local>>

\* save_calibration that answers normally when there is no result to save
save_calibration_ignoring_none ==
    /\ IF last_calibration = None
       THEN /\ response' = [type |-> "EmptyResponse"]
            /\ to_param_calls' = << >>
            /\ to_file_calls' = << >>
       ELSE \E param_outcome \in SinkOutcomes, file_outcome \in SinkOutcomes :
            /\ to_param_calls' = << sink_call(last_calibration, param_outcome) >>
            /\ IF param_outcome = "raise"
               THEN /\ to_file_calls' = << >>
                    /\ response' = exception("Exception")
               ELSE /\ to_file_calls' = << sink_call(last_calibration, file_outcome) >>
                    /\ response' = IF file_outcome = "raise"
                                   THEN exception("Exception")
                                   ELSE [type |-> "EmptyResponse"]
    /\ request' = [op |-> "save_calibration"]
    /\ calibrate_calls' = << >>
    /\ tf_calls' = << >>
    /\ log' = << >>
    /\ UNCHANGED <<eye_on_hand, samples, last_calibration, pc, local>>

save_calibration ==
    /\ IF last_calibration = None
       THEN /\ response' = exception("AttributeError")
            /\ to_param_calls' = << >>
            /\ to_file_calls' = << >>
       ELSE \E param_outcome \in SinkOutcomes, file_outcome \in SinkOutcomes :
            /\ to_param_calls' = << sink_call(last_calibration, param_outcome) >>
            /\ IF param_outcome = "raise"
               THEN /\ to_file_calls' = << >>
                    /\ response' = exception("Exception")
               ELSE /\ to_file_calls' = << sink_call(last_calibration, file_outcome) >>
                    /\ response' = IF file_outcome = "raise"
                                   THEN exception("Exception")
                                   ELSE [type |-> "EmptyResponse"]
    /\ request' = [op |-> "save_calibration"]
    /\ calibrate_calls' = << >>
    /\ tf_calls' = << >>
    /\ log' = << >>
    /\ UNCHANGED <<eye_on_hand, samples, last_calibration, pc, local>>

Next ==
    \/ get_sample_lists
    \/ take_sample
    \/ remove_sample
    \/ compute_calibration
    \/ save_calibration

Spec == Init /\ [][Next]_vars

-----------------------------------------------------------------------------
(* The handlers as rospy runs them: each client connection has its own      *)
(* thread, HandeyeServer takes no lock, so the statements of two handlers   *)
(* interleave.  A step is one statement that reads or writes self.samples   *)
(* or self.last_calibration, or one blocking call of a collaborator; what a *)
(* handler does with its own values belongs to its next such step.  Here    *)
(* request, response, calibrate_calls, to_param_calls and to_file_calls     *)
(* describe the last step: the request and the response if the step ended   *)
(* a handler, and the calls made in it; tf_calls and log are not recorded.  *)

Handlers == {"get_sample_lists", "take_sample", "remove_sample",
             "compute_calibration", "save_calibration"}

\* the statements of HandeyeCalibrator.take_sample and of the server's take_sample
TakeLabels == {"take_wait_robot", "take_wait_optical", "take_append", "take_respond"}

\* the first statement of each handler
first_label(handler) ==
    CASE handler = "get_sample_lists" -> "get_respond"
      [] handler = "take_sample" -> "take_wait_robot"
      [] handler = "remove_sample" -> "remove_del"
      [] handler = "compute_calibration" -> "compute_check"
      [] handler = "save_calibration" -> "save_to_param"

\* thread t goes on at label with the local values locals
goto(t, label, locals) ==
    /\ pc' = [pc EXCEPT ![t] = label]
    /\ local' = [local EXCEPT ![t] = locals]

\* thread t goes on at label: no request was answered in this step
continue(t, label, locals) ==
    /\ request' = [op |-> "none"]
    /\ response' = [type |-> "none"]
    /\ goto(t, label, locals)

\* thread t returns resp (or raises it) to the client and is free again
return(t, resp) ==
    /\ request' = [op |-> local[t].handler, thread |-> t]
    /\ response' = resp
    /\ goto(t, "idle", NoLocals)

\* the calls made in a step
step_of(t, calls, params, files) ==
    /\ calibrate_calls' = calls
    /\ to_param_calls' = params
    /\ to_file_calls' = files
    /\ UNCHANGED <<eye_on_hand, tf_calls, log>>

\* a request arrives on the connection of the idle thread t
receive(t) ==
    /\ pc[t] = "idle"
    /\ \E handler \in Handlers :
         /\ handler = "take_sample"
              => Len(samples) + Cardinality({u \in Threads : pc[u] \in TakeLabels})
                   < MaxThreadSamples
         /\ continue(t, first_label(handler), [handler |-> handler])
    /\ calibrate_calls' = << >>
    /\ to_param_calls' = << >>
    /\ to_file_calls' = << >>
    /\ UNCHANGED <<eye_on_hand, samples, last_calibration, tf_calls, log>>

thread_get_sample_lists(t) ==
    /\ pc[t] = "get_respond"
    /\ return(t, [type |-> "TakeSampleResponse",
                  samples |-> SampleList(get_visp_samples(samples))])
    /\ step_of(t, << >>, << >>, << >>)
    /\ UNCHANGED <<samples, last_calibration>>

\* waitForTransform of the robot chain returns or times out
thread_wait_robot(t) ==
    /\ pc[t] = "take_wait_robot"
    /\ \E timed_out \in BOOLEAN :
         IF timed_out
         THEN return(t, exception("tf.Exception"))
         ELSE continue(t, "take_wait_optical", local[t])
    /\ step_of(t, << >>, << >>, << >>)
    /\ UNCHANGED <<samples, last_calibration>>

\* thread_wait_optical that starts the acquisition again when the wait timed out
thread_wait_optical_retrying(t) ==
    /\ pc[t] = "take_wait_optical"
    /\ \E timed_out \in BOOLEAN :
         IF timed_out
         THEN continue(t, "take_wait_robot", local[t])
         ELSE continue(t, "take_append", local[t])
    /\ step_of(t, << >>, << >>, << >>)
    /\ UNCHANGED <<samples, last_calibration>>

\* waitForTransform of the optical chain returns or times out
thread_wait_optical(t) ==
    /\ pc[t] = "take_wait_optical"
    /\ \E timed_out \in BOOLEAN :
         IF timed_out
         THEN return(t, exception("tf.Exception"))
         ELSE continue(t, "take_append", local[t])
    /\ step_of(t, << >>, << >>, << >>)
    /\ UNCHANGED <<samples, last_calibration>>

\* the two lookups, which raise or return the two transforms, and
\* self.samples.append(transforms)
thread_append(t) ==
    /\ pc[t] = "take_append"
    /\ \/ /\ return(t, exception("tf.LookupException"))
          /\ UNCHANGED samples
       \/ \E rob \in TfTuples, opt \in TfTuples :
            /\ samples' = Append(samples, [robot |-> rob, optical |-> opt])
            /\ continue(t, "take_respond", local[t])
    /\ step_of(t, << >>, << >>, << >>)
    /\ UNCHANGED last_calibration

thread_take_respond(t) ==
    /\ pc[t] = "take_respond"
    /\ return(t, [type |-> "TakeSampleResponse",
                  samples |-> SampleList(get_visp_samples(samples))])
    /\ step_of(t, << >>, << >>, << >>)
    /\ UNCHANGED <<samples, last_calibration>>

thread_remove_del(t) ==
    /\ pc[t] = "remove_del"
    /\ \E sample_index \in SampleIndices :
         samples' = HandeyeCalibrator_remove_sample(samples, sample_index)
    /\ continue(t, "remove_respond", local[t])
    /\ step_of(t, << >>, << >>, << >>)
    /\ UNCHANGED last_calibration

thread_remove_respond(t) ==
    /\ pc[t] = "remove_respond"
    /\ return(t, [type |-> "RemoveSampleResponse",
                  samples |-> SampleList(get_visp_samples(samples))])
    /\ step_of(t, << >>, << >>, << >>)
    /\ UNCHANGED <<samples, last_calibration>>

\* the test len(self.samples) < MIN_SAMPLES and the early return of None
thread_compute_check(t) ==
    /\ pc[t] = "compute_check"
    /\ IF Len(samples) < MIN_SAMPLES
       THEN continue(t, "compute_assign",
                     [handler |-> "compute_calibration", ret |-> None])
       ELSE continue(t, "compute_call", local[t])
    /\ step_of(t, << >>, << >>, << >>)
    /\ UNCHANGED <<samples, last_calibration>>

\* get_visp_samples, the comparison of the two lengths, and the service call
thread_compute_call(t) ==
    /\ pc[t] = "compute_call"
    /\ \E reply \in SolverReplies :
         LET visp == get_visp_samples(samples)
             hand_world_samples == visp[1]
             camera_marker_samples == visp[2]
             call == [args |-> <<camera_marker_samples, hand_world_samples>>,
                      reply |-> reply]
         IN
         IF Len(hand_world_samples.transforms) # Len(camera_marker_samples.transforms)
         THEN /\ return(t, exception("AssertionError"))
              /\ step_of(t, << >>, << >>, << >>)
         ELSE continue(t, "compute_assign",
                      [handler |-> "compute_calibration",
                       ret |-> IF reply.raised = "ServiceException" THEN None
                               ELSE HandeyeCalibration(eye_on_hand, base_link_frame,
                                        tool_frame, optical_origin_frame,
                                        result_tuple(reply))])
              /\ step_of(t, <<call>>, << >>, << >>)
    /\ UNCHANGED <<samples, last_calibration>>

\* self.last_calibration = <what HandeyeCalibrator.compute_calibration returned>
thread_compute_assign(t) ==
    /\ pc[t] = "compute_assign"
    /\ last_calibration' = local[t].ret
    /\ continue(t, "compute_respond", [handler |-> "compute_calibration"])
    /\ step_of(t, << >>, << >>, << >>)
    /\ UNCHANGED samples

\* the response is filled from self.last_calibration
thread_compute_respond(t) ==
    /\ pc[t] = "compute_respond"
    /\ return(t, IF last_calibration = None THEN exception("AttributeError")
                 ELSE [type |-> "ComputeCalibrationResponse",
                       calibration |->
                         [eye_on_hand |-> last_calibration.eye_on_hand,
                          transform |-> last_calibration.transformation]])
    /\ step_of(t, << >>, << >>, << >>)
    /\ UNCHANGED <<samples, last_calibration>>

\* self.last_calibration.to_param(); param_value keeps the value it was called on
thread_save_to_param(t) ==
    /\ pc[t] = "save_to_param"
    /\ IF last_calibration = None
       THEN /\ return(t, exception("AttributeError"))
            /\ step_of(t, << >>, << >>, << >>)
       ELSE \E outcome \in SinkOutcomes :
            /\ IF outcome = "raise"
               THEN return(t, exception("Exception"))
               ELSE continue(t, "save_to_file",
                            [handler |-> "save_calibration",
                             param_value |-> last_calibration])
            /\ step_of(t, << >>, << sink_call(last_calibration, outcome) >>, << >>)
    /\ UNCHANGED <<samples, last_calibration>>

\* self.last_calibration.to_file()
thread_save_to_file(t) ==
    /\ pc[t] = "save_to_file"
    /\ IF last_calibration = None
       THEN /\ return(t, exception("AttributeError"))
            /\ step_of(t, << >>, << >>, << >>)
       ELSE \E outcome \in SinkOutcomes :
            /\ return(t, IF outcome = "raise" THEN exception("Exception")
                         ELSE [type |-> "EmptyResponse"])
            /\ step_of(t, << >>, << >>, << sink_call(last_calibration, outcome) >>)
    /\ UNCHANGED <<samples, last_calibration>>

\* the next statement of the handler that thread t runs
thread_step(t) ==
    \/ thread_get_sample_lists(t)
    \/ thread_wait_robot(t)
    \/ thread_wait_optical(t)
    \/ thread_append(t)
    \/ thread_take_respond(t)
    \/ thread_remove_del(t)
    \/ thread_remove_respond(t)
    \/ thread_compute_check(t)
    \/ thread_compute_call(t)
    \/ thread_compute_assign(t)
    \/ thread_compute_respond(t)
    \/ thread_save_to_param(t)
    \/ thread_save_to_file(t)

NextThreads == \E t \in Threads : receive(t) \/ thread_step(t)

SpecThreads == Init /\ [][NextThreads]_vars

\* the scheduler lets every thread that runs a handler go on; requests need not arrive
SpecThreadsFair == SpecThreads /\ \A t \in Threads : WF_vars(thread_step(t))

-----------------------------------------------------------------------------
(* Properties *)

\* the message msg has the components of the tf tuple tf_t, in the order x, y, z (, w)
SameTransform(msg, tf_t) ==
    /\ msg.translation.x = tf_t[1][1]
    /\ msg.translation.y = tf_t[1][2]
    /\ msg.translation.z = tf_t[1][3]
    /\ msg.rotation.x = tf_t[2][1]
    /\ msg.rotation.y = tf_t[2][2]
    /\ msg.rotation.z = tf_t[2][3]
    /\ msg.rotation.w = tf_t[2][4]

\* hand_world and camera_marker are the robot and the optical side of the list
\* ss, sample for sample and in its order
ProjectionsOf(hand_world, camera_marker, ss) ==
    /\ Len(hand_world.transforms) = Len(ss)
    /\ Len(camera_marker.transforms) = Len(ss)
    /\ \A k \in 1 .. Len(ss) :
         /\ SameTransform(hand_world.transforms[k], ss[k].robot)
         /\ SameTransform(camera_marker.transforms[k], ss[k].optical)

\* C1: a compute_calibration request made with fewer than MIN_SAMPLES samples
\* leaves last_calibration as it was.
C1_ComputeBelowThresholdKeepsResult ==
    [][(request'.op = "compute_calibration" /\ Len(samples) < MIN_SAMPLES)
         => last_calibration' = last_calibration]_vars

\* C2: a compute_calibration request with at least MIN_SAMPLES samples whose
\* service call raises ends in an error and leaves last_calibration as it was.
C2_SolverFailureKeepsResult ==
    [][(/\ request'.op = "compute_calibration"
        /\ Len(samples) >= MIN_SAMPLES
        /\ Len(calibrate_calls') = 1
        /\ calibrate_calls'[1].reply.raised # "")
         => (/\ response'.type = "exception"
             /\ last_calibration' = last_calibration)]_vars

\* C3: a compute_calibration request made with fewer than MIN_SAMPLES samples
\* makes no call of the service proxy, does not answer with a calibration, and
\* reports MIN_SAMPLES - len(samples) as the number of samples still needed.
C3_ComputeBelowThresholdIsLocal ==
    [][(request'.op = "compute_calibration" /\ Len(samples) < MIN_SAMPLES)
         => (/\ calibrate_calls' = << >>
             /\ response'.type = "exception"
             /\ Len(log') = 1
             /\ log'[1].level = "warn"
             /\ log'[1].needed = MIN_SAMPLES - Len(samples)
             /\ log'[1].needed > 0)]_vars

C3_Witness ==
    /\ request.op = "compute_calibration"
    /\ Len(samples) = 1
    /\ calibrate_calls = << >>
    /\ response.type = "exception"
    /\ Len(log) = 1
    /\ log[1].level = "warn"
    /\ log[1].needed = 1

\* C4: a save_calibration request made while last_calibration is None fails,
\* writes neither to the parameter server nor to the file, and leaves the
\* samples and last_calibration as they were.
C4_SaveWithoutResultFails ==
    [][(request'.op = "save_calibration" /\ last_calibration = None)
         => (/\ response'.type = "exception"
             /\ to_param_calls' = << >>
             /\ to_file_calls' = << >>
             /\ samples' = samples
             /\ last_calibration' = last_calibration)]_vars

C4_Witness ==
    /\ request.op = "save_calibration"
    /\ last_calibration = None
    /\ response = exception("AttributeError")
    /\ Len(samples) >= MIN_SAMPLES

\* C5: once last_calibration holds a result, it holds a result after every
\* later request.
C5_ResultNeverEmptiedAgain ==
    [][last_calibration # None => last_calibration' # None]_vars

\* C6: when the service call of a compute_calibration request returns the
\* transform T, the result has the configured eye_on_hand, base_link_frame and
\* tool_frame and the components of T, last_calibration holds that result
\* whatever it held before, and the response carries it.
C6_SuccessfulComputeStoresResult ==
    [][(/\ request'.op = "compute_calibration"
        /\ Len(calibrate_calls') = 1
        /\ calibrate_calls'[1].reply.raised = "")
         => LET T == calibrate_calls'[1].reply.effector_camera IN
            /\ last_calibration' # None
            /\ last_calibration'.eye_on_hand = eye_on_hand
            /\ last_calibration'.base_link_frame = "base_link"
            /\ last_calibration'.tool_frame = "tool0"
            /\ SameTransform(T, last_calibration'.transformation)
            /\ response'.type = "ComputeCalibrationResponse"
            /\ response'.calibration.eye_on_hand = eye_on_hand
            /\ SameTransform(T, response'.calibration.transform)]_vars

C6_Witness ==
    /\ request.op = "compute_calibration"
    /\ Len(calibrate_calls) = 1
    /\ calibrate_calls[1].reply.raised = ""
    /\ response.type = "ComputeCalibrationResponse"
    /\ last_calibration # None
    /\ SameTransform(calibrate_calls[1].reply.effector_camera,
                     last_calibration.transformation)

\* C7: a compute_calibration request made with at least MIN_SAMPLES samples
\* calls the service proxy exactly once, whether the call returns or raises,
\* with the optical side and the robot side of the current samples in order.
C7_SolverCalledOnceWithSamples ==
    [][(request'.op = "compute_calibration" /\ Len(samples) >= MIN_SAMPLES)
         => (/\ Len(calibrate_calls') = 1
             /\ ProjectionsOf(calibrate_calls'[1].args[2],
                              calibrate_calls'[1].args[1], samples))]_vars

C7_Witness ==
    /\ request.op = "compute_calibration"
    /\ Len(samples) = MaxSamples
    /\ samples[1] # samples[2]
    /\ Len(calibrate_calls) = 1
    /\ calibrate_calls[1].reply.raised = "ServiceException"
    /\ ProjectionsOf(calibrate_calls[1].args[2], calibrate_calls[1].args[1], samples)

\* C8: a take_sample request that fails in a wait or a lookup of tf hands the
\* tf exception to the caller and leaves the samples and last_calibration as
\* they were.
C8_FailedTakeSampleChangesNothing ==
    [][(request'.op = "take_sample" /\ response'.type = "exception")
         => (/\ response'.exc \in {"tf.Exception", "tf.LookupException"}
             /\ samples' = samples
             /\ last_calibration' = last_calibration)]_vars

C8_Witness ==
    /\ request.op = "take_sample"
    /\ response = exception("tf.LookupException")
    /\ Len(samples) >= 1
    /\ last_calibration # None

\* C9: in every state the two arrays of get_visp_samples are as long as the
\* list of samples, so are the two arrays of every sample list returned, and
\* compute_calibration never raises its AssertionError.
C9_ArraysHaveSampleCount ==
    /\ Len(get_visp_samples(samples)[1].transforms) = Len(samples)
    /\ Len(get_visp_samples(samples)[2].transforms) = Len(samples)
    /\ response.type \in {"TakeSampleResponse", "RemoveSampleResponse"}
         => /\ Len(response.samples.hand_world_samples.transforms) = Len(samples)
            /\ Len(response.samples.camera_marker_samples.transforms) = Len(samples)
    /\ response # exception("AssertionError")

C9_Witness ==
    /\ request.op = "take_sample"
    /\ response.type = "TakeSampleResponse"
    /\ Len(samples) = MaxSamples
    /\ Len(response.samples.hand_world_samples.transforms) = MaxSamples
    /\ Len(response.samples.camera_marker_samples.transforms) = MaxSamples

\* C10: remove_sample with 0 <= sample_index < len(samples) shortens the list
\* by one, keeps the samples before sample_index at their index, moves those
\* after it down by one, and returns the arrays of the resulting list.
C10_RemoveSampleRemovesThatSample ==
    [][(/\ request'.op = "remove_sample"
        /\ 0 <= request'.sample_index
        /\ request'.sample_index < Len(samples))
         => LET i == request'.sample_index IN
            /\ Len(samples') = Len(samples) - 1
            /\ \A j \in 0 .. (Len(samples) - 2) :
                 samples'[j + 1] = IF j < i THEN samples[j + 1] ELSE samples[j + 2]
            /\ response'.type = "RemoveSampleResponse"
            /\ ProjectionsOf(response'.samples.hand_world_samples,
                             response'.samples.camera_marker_samples,
                             samples')]_vars

C10_Witness ==
    /\ request.op = "remove_sample"
    /\ request.sample_index = 0
    /\ Len(samples) = MaxSamples - 1
    /\ samples[1] # samples[2]
    /\ response.type = "RemoveSampleResponse"
    /\ ProjectionsOf(response.samples.hand_world_samples,
                     response.samples.camera_marker_samples, samples)

\* C11: remove_sample with sample_index below 0 or at least len(samples)
\* removes nothing, raises nothing, and returns the arrays of the unchanged list.
C11_RemoveSampleOutOfRangeIgnored ==
    [][(/\ request'.op = "remove_sample"
        /\ (request'.sample_index < 0 \/ request'.sample_index >= Len(samples)))
         => (/\ samples' = samples
             /\ response'.type = "RemoveSampleResponse"
             /\ ProjectionsOf(response'.samples.hand_world_samples,
                              response'.samples.camera_marker_samples,
                              samples))]_vars

C11_Witness ==
    /\ request.op = "remove_sample"
    /\ request.sample_index = 0 - 1
    /\ Len(samples) = MaxSamples
    /\ response.type = "RemoveSampleResponse"
    /\ Len(response.samples.hand_world_samples.transforms) = MaxSamples

\* C12: a save_calibration request made while last_calibration holds a result
\* calls both to_param and to_file, whatever the other one does, and answers
\* normally exactly when both writes succeeded.
C12_SaveAttemptsBothSinks ==
    [][(request'.op = "save_calibration" /\ last_calibration # None)
         => (/\ Len(to_param_calls') = 1
             /\ Len(to_file_calls') = 1
             /\ (response'.type = "EmptyResponse"
                   <=> (/\ to_param_calls'[1].outcome = "ok"
                        /\ to_file_calls'[1].outcome = "ok")))]_vars

\* C13: a take_sample request that succeeds lengthens the list by one, keeps
\* every earlier sample at its index, and returns the arrays of the whole
\* resulting list.
C13_TakeSampleAppendsOne ==
    [][(request'.op = "take_sample" /\ response'.type = "TakeSampleResponse")
         => (/\ Len(samples') = Len(samples) + 1
             /\ \A k \in 1 .. Len(samples) : samples'[k] = samples[k]
             /\ ProjectionsOf(response'.samples.hand_world_samples,
                              response'.samples.camera_marker_samples,
                              samples'))]_vars

C13_Witness ==
    /\ request.op = "take_sample"
    /\ response.type = "TakeSampleResponse"
    /\ Len(samples) = MaxSamples
    /\ samples[MaxSamples] # samples[1]
    /\ ProjectionsOf(response.samples.hand_world_samples,
                     response.samples.camera_marker_samples, samples)

IsLookup(call) == call.fn = "lookupTransform"

\* C14: the sample a take_sample request appends comes from one lookup of the
\* robot chain and one of the optical chain with the same time argument, the
\* reading of the clock taken before the waits, although the clock has
\* advanced between the two lookups.
C14_SampleLookedUpAtOneInstant ==
    [][(request'.op = "take_sample" /\ Len(samples') > Len(samples))
         => LET lookups == SelectSeq(tf_calls', IsLookup) IN
            /\ Len(lookups) = 2
            /\ lookups[1].target = base_link_frame
            /\ lookups[1].source = tool_frame
            /\ lookups[2].target = optical_origin_frame
            /\ lookups[2].source = optical_target_frame
            /\ lookups[1].time = lookups[2].time
            /\ lookups[1].time = tf_calls'[1].time
            /\ lookups[1].at < lookups[2].at]_vars

C14_Witness ==
    /\ request.op = "take_sample"
    /\ response.type = "TakeSampleResponse"
    /\ Len(samples) >= MIN_SAMPLES
    /\ Len(tf_calls) = 4
    /\ IsLookup(tf_calls[3])
    /\ IsLookup(tf_calls[4])
    /\ tf_calls[3].time = tf_calls[4].time
    /\ tf_calls[3].at < tf_calls[4].at

\* C17: a get_sample_lists request leaves the samples and last_calibration as
\* they were, calls neither the tf listener, nor the service proxy, nor
\* to_param or to_file, and returns the arrays of the whole list in its order.
C17_GetSamplesIsPureRead ==
    [][request'.op = "get_sample_lists"
         => (/\ samples' = samples
             /\ last_calibration' = last_calibration
             /\ tf_calls' = << >>
             /\ calibrate_calls' = << >>
             /\ to_param_calls' = << >>
             /\ to_file_calls' = << >>
             /\ response'.type = "TakeSampleResponse"
             /\ ProjectionsOf(response'.samples.hand_world_samples,
                              response'.samples.camera_marker_samples,
                              samples))]_vars

C17_Witness ==
    /\ request.op = "get_sample_lists"
    /\ Len(samples) = MaxSamples
    /\ last_calibration # None
    /\ tf_calls = << >>
    /\ response.type = "TakeSampleResponse"
    /\ ProjectionsOf(response.samples.hand_world_samples,
                     response.samples.camera_marker_samples, samples)

\* C20: compute_calibration and save_calibration requests, however they end,
\* leave the list of samples as it was, and save_calibration also leaves
\* last_calibration as it was.
C20_ComputeAndSaveKeepSamples ==
    [][(request'.op \in {"compute_calibration", "save_calibration"})
         => (/\ samples' = samples
             /\ request'.op = "save_calibration"
                  => last_calibration' = last_calibration)]_vars

C20_Witness ==
    /\ request.op = "compute_calibration"
    /\ Len(samples) = MaxSamples
    /\ Len(calibrate_calls) = 1
    /\ calibrate_calls[1].reply.raised = "ServiceException"

\* thread t has read or written self.samples or self.last_calibration in a
\* handler that changes them and has not returned yet
InProgress(t) ==
    pc[t] \in {"take_respond", "remove_respond", "compute_call",
               "compute_assign", "compute_respond", "save_to_file"}

\* C15: no two of take_sample, remove_sample, compute_calibration and
\* save_calibration are in progress at the same time.
C15_MutatingHandlersSerialized ==
    \A t \in Threads, u \in Threads : t # u => ~(InProgress(t) /\ InProgress(u))

\* thread t has just ended a take_sample with the arrays or with a tf exception
TakeSampleEnded(t) ==
    /\ pc[t] = "idle"
    /\ request = [op |-> "take_sample", thread |-> t]
    /\ \/ response.type = "TakeSampleResponse"
       \/ response \in {exception("tf.Exception"), exception("tf.LookupException")}

\* C16: every take_sample request ends, with the arrays of the list or with a
\* tf exception, provided every wait returns or times out and the thread is
\* scheduled.
C16_TakeSampleCompletes ==
    \A t \in Threads : (pc[t] \in TakeLabels) ~> TakeSampleEnded(t)

C16_Witness ==
    /\ TakeSampleEnded("client_a")
    /\ response = exception("tf.Exception")
    /\ pc["client_b"] = "compute_call"

\* C18: the service proxy is never called with arrays of fewer than
\* MIN_SAMPLES transforms, also when a remove_sample runs between the test of
\* compute_calibration and its get_visp_samples.
C18_SolverNeverGetsTooFewSamples ==
    \A k \in 1 .. Len(calibrate_calls) :
        /\ Len(calibrate_calls[k].args[1].transforms) >= MIN_SAMPLES
        /\ Len(calibrate_calls[k].args[2].transforms) >= MIN_SAMPLES

\* C19: within one save_calibration request to_file is called on the value
\* to_param was called on, also when a compute_calibration assigns
\* last_calibration in between.
C19_SaveWritesOneValue ==
    [][\A t \in Threads :
         (pc[t] = "save_to_file" /\ pc'[t] = "idle" /\ to_file_calls' # << >>)
           => to_file_calls'[1].value = local[t].param_value]_vars

====
